---- MODULE Spec2Model ----
(***************************************************************************)
(* Model of the Ikai Asai prompt generator: the prompt composer            *)
(* enhanced_enrich_prompt (app.py and app1.py), and the Streamlit script   *)
(* runs of app.py (Generate Image, Edit Image, display) and of app1.py     *)
(* (Generate Enhanced Prompt, Generate Image with this Prompt, display).   *)
(* Strings are TLA+ strings: \o is Python's concatenation, "" is the       *)
(* empty (falsy) string.                                                   *)
(***************************************************************************)
EXTENDS Integers, Sequences, FiniteSets, TLC

(***************************************************************************)
(* Bounds of the model.                                                    *)
(***************************************************************************)
\* how many non-empty candidate texts each free-text field is drawn from
MaxText == 2
\* how many non-empty options of each style selectbox are used
MaxStyle == 2
\* how many options of the material selectbox are used
MaxMaterial == 1

Min(a, b) == IF a < b THEN a ELSE b

\* the first n entries of a list, as a set
Take(list, n) == {list[i] : i \in 1..Min(n, Len(list))}

(***************************************************************************)
(* String helpers.                                                         *)
(***************************************************************************)
\* sub occurs in s at position i
OccursAt(s, sub, i) ==
    /\ i >= 1
    /\ i + Len(sub) - 1 <= Len(s)
    /\ SubSeq(s, i, i + Len(sub) - 1) = sub

\* the positions at which sub occurs in s
Occurrences(s, sub) == {i \in 1..Len(s) : OccursAt(s, sub, i)}

\* Python's  sub in s
Contains(s, sub) == \E i \in 1..Len(s) : OccursAt(s, sub, i)

(***************************************************************************)
(* The widgets of the form (col1 of both scripts).                         *)
(***************************************************************************)
MaterialOptions ==
    <<"ceramic", "wood", "metal", "stone", "glass", "terracotta",
      "bronze", "marble", "brass", "copper">>

LightingOptions ==
    <<"", "Natural sunlight through window", "Soft diffused studio light",
      "Warm golden hour glow", "Dramatic side lighting", "Minimalist even lighting">>

BackgroundOptions ==
    <<"", "Neutral beige", "Minimalist white", "Textured natural stone",
      "Warm wooden surface", "Soft gradient", "Muted earth tones">>

CompositionOptions ==
    <<"", "Centered isolated product", "Styled with complementary props",
      "Overhead flat lay", "45-degree angle view", "Multiple angles in composition">>

MoodOptions ==
    <<"", "Serene and calm", "Warm and inviting", "Elegant and sophisticated",
      "Rustic and authentic", "Minimalist and clean">>

\* what a user may type into the free-text widgets (text_input, text_area);
\* nothing restricts these texts, so some of them carry the style labels
ProductTypeTexts == <<"", "bowl", "vase", "Mood: cup", "plate">>
ColorTexts == <<"", "earthen brown", "Lighting: red", "ivory", "matte black">>
SizeTexts == <<"", "10cm x 5cm", "Background: large", "small", "medium">>
DetailsTexts ==
    <<"", "with geometric patterns", "smooth. Composition: none.", "rough edges",
      "smooth texture">>

Forms ==
    [product_type : Take(ProductTypeTexts, MaxText + 1),
     material : Take(MaterialOptions, MaxMaterial),
     color : Take(ColorTexts, MaxText + 1),
     size : Take(SizeTexts, MaxText + 1),
     additional_details : Take(DetailsTexts, MaxText + 1),
     lighting : Take(LightingOptions, MaxStyle + 1),
     background : Take(BackgroundOptions, MaxStyle + 1),
     composition : Take(CompositionOptions, MaxStyle + 1),
     mood : Take(MoodOptions, MaxStyle + 1)]

(***************************************************************************)
(* The prompt composer.                                                    *)
(***************************************************************************)
ikai_asai_context ==
    "handcrafted, minimalist design with an earthy aesthetic. The style draws inspiration "
    \o "from natural materials like ceramic, wood, and metal, emphasizing rustic, organic textures. "
    \o "Products are elegant, functional, and often presented in soft, natural lighting with a serene, "
    \o "contemporary feel, blending traditional Indian craftsmanship with modern sensibilities."

\* style_desc with mood appended before composition
style_desc_swapped(lighting, background, composition, mood) ==
    LET s0 == ikai_asai_context
        s1 == IF lighting # "" THEN s0 \o " Lighting: " \o lighting \o "." ELSE s0
        s2 == IF background # "" THEN s1 \o " Background: " \o background \o "." ELSE s1
        s3 == IF mood # "" THEN s2 \o " Mood: " \o mood \o "." ELSE s2
        s4 == IF composition # "" THEN s3 \o " Composition: " \o composition \o "." ELSE s3
    IN  s4

\* style_desc without the test of lighting
style_desc_unguarded(lighting, background, composition, mood) ==
    LET s0 == ikai_asai_context
        s1 == s0 \o " Lighting: " \o lighting \o "."
        s2 == IF background # "" THEN s1 \o " Background: " \o background \o "." ELSE s1
        s3 == IF composition # "" THEN s2 \o " Composition: " \o composition \o "." ELSE s2
        s4 == IF mood # "" THEN s3 \o " Mood: " \o mood \o "." ELSE s3
    IN  s4

\* style_desc with the background clause under the lighting label
style_desc_mislabelled(lighting, background, composition, mood) ==
    LET s0 == ikai_asai_context
        s1 == IF lighting # "" THEN s0 \o " Lighting: " \o lighting \o "." ELSE s0
        s2 == IF background # "" THEN s1 \o " Lighting: " \o background \o "." ELSE s1
        s3 == IF composition # "" THEN s2 \o " Composition: " \o composition \o "." ELSE s2
        s4 == IF mood # "" THEN s3 \o " Mood: " \o mood \o "." ELSE s3
    IN  s4

\* the product description, built by the two conditional appends
product_desc(product_type, material, color, size, additional_details) ==
    LET d0 == "a " \o color \o " " \o product_type \o " made of " \o material
        d1 == IF size # "" THEN d0 \o ", size " \o size ELSE d0
        d2 == IF additional_details # "" THEN d1 \o ". " \o additional_details ELSE d1
    IN  d2

\* the style description, built by the four conditional appends
style_desc(lighting, background, composition, mood) ==
    LET s0 == ikai_asai_context
        s1 == IF lighting # "" THEN s0 \o " Lighting: " \o lighting \o "." ELSE s0
        s2 == IF background # "" THEN s1 \o " Background: " \o background \o "." ELSE s1
        s3 == IF composition # "" THEN s2 \o " Composition: " \o composition \o "." ELSE s2
        s4 == IF mood # "" THEN s3 \o " Mood: " \o mood \o "." ELSE s3
    IN  s4

enhanced_enrich_prompt(product_type, material, color, size, additional_details, lighting, background, composition, mood) ==
    "Create an image of "
    \o product_desc(product_type, material, color, size, additional_details)
    \o ". Style: "
    \o style_desc(lighting, background, composition, mood)

\* the call as app.py makes it, with the widgets' values
ComposeForm(f) ==
    enhanced_enrich_prompt(f.product_type, f.material, f.color, f.size,
                           f.additional_details, f.lighting, f.background,
                           f.composition, f.mood)

\* app1.py's function without the style customisations
app1_enhanced_enrich_prompt_unstyled(product_type, material, color, size, additional_details, lighting, background, composition, mood) ==
    LET context ==
            "handcrafted, minimalist design with an earthy aesthetic. The style draws inspiration "
            \o "from natural materials like ceramic, wood, and metal, emphasizing rustic, organic textures. "
            \o "Products are elegant, functional, and often presented in soft, natural lighting with a serene, "
            \o "contemporary feel, blending traditional Indian craftsmanship with modern sensibilities."
        desc0 == "a " \o color \o " " \o product_type \o " made of " \o material
        desc1 == IF size # "" THEN desc0 \o ", size " \o size ELSE desc0
        desc2 == IF additional_details # "" THEN desc1 \o ". " \o additional_details ELSE desc1
    IN  "Create an image of " \o desc2 \o ". Style: " \o context

\* app1.py's enhanced_enrich_prompt, from its own text
app1_enhanced_enrich_prompt(product_type, material, color, size, additional_details, lighting, background, composition, mood) ==
    LET context ==
            "handcrafted, minimalist design with an earthy aesthetic. The style draws inspiration "
            \o "from natural materials like ceramic, wood, and metal, emphasizing rustic, organic textures. "
            \o "Products are elegant, functional, and often presented in soft, natural lighting with a serene, "
            \o "contemporary feel, blending traditional Indian craftsmanship with modern sensibilities."
        desc0 == "a " \o color \o " " \o product_type \o " made of " \o material
        desc1 == IF size # "" THEN desc0 \o ", size " \o size ELSE desc0
        desc2 == IF additional_details # "" THEN desc1 \o ". " \o additional_details ELSE desc1
        style0 == context
        style1 == IF lighting # "" THEN style0 \o " Lighting: " \o lighting \o "." ELSE style0
        style2 == IF background # "" THEN style1 \o " Background: " \o background \o "." ELSE style1
        style3 == IF composition # "" THEN style2 \o " Composition: " \o composition \o "." ELSE style2
        style4 == IF mood # "" THEN style3 \o " Mood: " \o mood \o "." ELSE style3
    IN  "Create an image of " \o desc2 \o ". Style: " \o style4

\* the call as app1.py makes it
ComposeForm1(f) ==
    app1_enhanced_enrich_prompt(f.product_type, f.material, f.color, f.size,
                                f.additional_details, f.lighting, f.background,
                                f.composition, f.mood)

(***************************************************************************)
(* Values of the environment: optional values, bytes, the image library,   *)
(* base64, the file system.                                                *)
(***************************************************************************)
\* the clock (int(time.time())) runs from 0 to MaxClock
MaxClock == 1

\* a session key or a file that is absent / present with value v
None == <<>>
Some(v) == <<v>>

\* the base64 alphabet (base64.b64decode, standard alphabet)
B64Alphabet == "ABCDEFGHIJKLMNOPQRSTUVWXYZabcdefghijklmnopqrstuvwxyz0123456789+/"

\* the 6-bit value of one base64 character
B64Index(c) == (CHOOSE i \in 1..64 : SubSeq(B64Alphabet, i, i) = c) - 1

\* base64.b64decode of a well-formed payload: every 4 characters give 3
\* bytes, 2 bytes when the group ends in "=", 1 byte when it ends in "=="
RECURSIVE b64decode(_)
b64decode(s) ==
    IF Len(s) < 4 THEN <<>>
    ELSE LET c(i) == SubSeq(s, i, i)
             v(i) == IF c(i) = "=" THEN 0 ELSE B64Index(c(i))
             n == v(1) * 262144 + v(2) * 4096 + v(3) * 64 + v(4)
             b1 == n \div 65536
             b2 == (n \div 256) % 256
             b3 == n % 256
             group == IF c(3) = "=" THEN <<b1>>
                      ELSE IF c(4) = "=" THEN <<b1, b2>>
                      ELSE <<b1, b2, b3>>
         IN  group \o b64decode(SubSeq(s, 5, Len(s)))

\* what the service sends inline: the base64 of the PNG bytes 137 80 71
B64Payloads == {"iVBH"}
\* what a URL of the service serves: other PNG bytes ...
ImageBodies == {<<137, 80, 70>>}
\* ... or what is no image: an HTML page ("<!D")
HtmlBody == <<60, 33, 68>>
Bodies == ImageBodies \cup {HtmlBody}

\* PIL's Image.open succeeds on the bytes (they start as a PNG does);
\* otherwise it raises UnidentifiedImageError
IsImage(bytes) == Len(bytes) >= 1 /\ bytes[1] = 137

\* the URL the service answers with
Urls == {"https://img.example/1"}

\* the first result entry: url and b64_json, "" for None or a missing attribute
Entries == [url : Urls \cup {""}, b64_json : B64Payloads \cup {""}]

\* errors the API client raises (str(e))
ClientErrors ==
    {"Error code: 400 - {'error': {'code': 'moderation_blocked'}}",
     "Error code: 429 - {'error': {'code': 'rate_limit_exceeded'}}"}

\* what client.images.generate / client.images.edit does: it raises
\* (raised # ""), or returns a response with a data list of n = 1 entries
ApiOutcomes ==
    [raised : ClientErrors, data : {<<>>}]
    \cup [raised : {""}, data : {<<>>} \cup {<<e>> : e \in Entries}]

\* what requests.get does: it raises, or returns a status and a body; the
\* service's URL serves an image with status 200, anything with another status
FetchOutcomes ==
    [raised : {FALSE}, status_code : {200}, content : ImageBodies]
    \cup [raised : {FALSE}, status_code : {404}, content : Bodies]
    \cup [raised : {TRUE}, status_code : {0}, content : {<<>>}]

\* the file names of both handlers: f"{prefix}{timestamp}.png"
FileName(prefix, timestamp) == prefix \o ToString(timestamp) \o ".png"
FileNames ==
    {FileName(p, t) : p \in {"ikai_asai_image_", "ikai_asai_edited_"}, t \in 0..MaxClock}

(***************************************************************************)
(* The state.                                                              *)
(***************************************************************************)
VARIABLES
    app,      \* which script the session runs: "app.py", "app1.py"; "compose"
              \* when enhanced_enrich_prompt is applied on its own
    env_key,  \* os.environ.get("OPENAI_API_KEY"), "" when unset
    form,     \* the values of the form's widgets at the latest script run
    prompt,   \* the value enhanced_enrich_prompt returned in the latest run
    ss,       \* st.session_state
    files,    \* the working directory: file name -> content
    clock,    \* int(time.time())
    api_key_input,  \* app1.py: the value of the sidebar's API key widget
    peer,     \* st.session_state of another session of app.py that runs in
              \* the same working directory
    run       \* what the latest script run did: its trigger, the messages it
              \* reported, the API calls and URL fetches it made, what it showed

vars == <<app, env_key, form, prompt, ss, files, clock, api_key_input, peer, run>>

\* st.error / st.success / st.info with the message's fixed text and the
\* interpolated part
Msg(level, text, detail) == [level |-> level, text |-> text, detail |-> detail]

EmptySession ==
    [image_url |-> None, image_bytes |-> None, image_bytesio |-> None,
     image_filename |-> None,
     edited_image_url |-> None, edited_image_bytes |-> None,
     edited_image_bytesio |-> None, edited_image_filename |-> None,
     prompt |-> None, api_key |-> None]

NoRun ==
    [trigger |-> "none", msgs |-> <<>>, api |-> <<>>, api_result |-> None,
     fetches |-> <<>>, shown |-> <<>>, download |-> None]

\* one requests.get, as recorded in run.fetches: who fetched which URL, and
\* how the fetch ended
Fetch(by, url, out) ==
    [by |-> by, url |-> url, raised |-> out.raised, status_code |-> out.status_code]

\* one st.image, as recorded in run.shown: who showed which bytes, and the
\* fetch they came from (None for bytes held in the session or decoded)
Shown(by, bytes, from) == [by |-> by, bytes |-> bytes, from |-> from]

\* the effects of a part of a script run
Effects(s, fs, msgs, api, fetches, shown, p) ==
    [ss |-> s, files |-> fs, msgs |-> msgs, api |-> api, fetches |-> fetches,
     shown |-> shown, prompt |-> p]

(***************************************************************************)
(* app.py: the Generate Image handler.                                     *)
(***************************************************************************)
\* get_api_key falling back to a built-in key
get_api_key_default == IF env_key # "" THEN env_key ELSE "sk-default"

\* app.py's get_api_key: the environment only
get_api_key == env_key

KeyNotFound ==
    Msg("error", "OpenAI API key not found. Please set the OPENAI_API_KEY environment variable.", "")

\* the block both branches of the handler share: keep the bytes in the
\* session, write them to ikai_asai_image_{timestamp}.png, remember the file
\* name, report success; when open() or write() raises, the bytes are in the
\* session already and the inner except reports the error
StoreImage(s, fs, now, image_bytes, fetches, writeOk) ==
    LET filename == FileName("ikai_asai_image_", now)
        s1 == [s EXCEPT !.image_bytes = Some(image_bytes),
                        !.image_bytesio = Some(image_bytes)]
    IN  IF writeOk
        THEN Effects([s1 EXCEPT !.image_filename = Some(filename)],
                     [fs EXCEPT ![filename] = Some(image_bytes)],
                     <<Msg("success", "Image generated successfully!", "")>>,
                     <<>>, fetches, <<>>, None)
        ELSE Effects(s1, fs, <<Msg("error", "Error during image generation: ", "OSError")>>,
                     <<>>, fetches, <<>>, None)

\* the URL branch: remember the URL, fetch it, store the body on status 200
DownloadImage(s, fs, now, image_url, fetchOut, writeOk) ==
    LET s1 == [s EXCEPT !.image_url = Some(image_url)]
        fetch == <<Fetch("generate", image_url, fetchOut)>>
    IN  IF fetchOut.raised
        THEN \* requests.get raises: the inner except reports it
             Effects(s1, fs, <<Msg("error", "Error during image generation: ", "ConnectionError")>>,
                     <<>>, fetch, <<>>, None)
        ELSE IF fetchOut.status_code = 200
        THEN StoreImage(s1, fs, now, fetchOut.content, fetch, writeOk)
        ELSE Effects(s1, fs, <<Msg("error", "Failed to download image: HTTP ",
                                   ToString(fetchOut.status_code))>>,
                     <<>>, fetch, <<>>, None)

\* ProcessResponse looking at the inline payload before the URL
ProcessResponse_inlinefirst(s, fs, now, apiOut, fetchOut, writeOk) ==
    IF Len(apiOut.data) > 0
    THEN IF apiOut.data[1].b64_json # ""
         THEN StoreImage(s, fs, now, b64decode(apiOut.data[1].b64_json), <<>>, writeOk)
         ELSE IF apiOut.data[1].url # ""
         THEN DownloadImage(s, fs, now, apiOut.data[1].url, fetchOut, writeOk)
         ELSE Effects(s, fs, <<Msg("error", "No image URL or base64 data found in the response.", "")>>,
                      <<>>, <<>>, <<>>, None)
    ELSE Effects(s, fs, <<Msg("error", "Response data is empty.", "")>>,
                 <<>>, <<>>, <<>>, None)

\* ProcessResponse taking the base64 branch whenever there is no URL
ProcessResponse_untested(s, fs, now, apiOut, fetchOut, writeOk) ==
    IF Len(apiOut.data) > 0
    THEN IF apiOut.data[1].url # ""
         THEN DownloadImage(s, fs, now, apiOut.data[1].url, fetchOut, writeOk)
         ELSE StoreImage(s, fs, now, b64decode(apiOut.data[1].b64_json), <<>>, writeOk)
    ELSE Effects(s, fs, <<Msg("error", "Response data is empty.", "")>>,
                 <<>>, <<>>, <<>>, None)

\* the response of client.images.generate: URL, else base64, else an error
ProcessResponse(s, fs, now, apiOut, fetchOut, writeOk) ==
    IF Len(apiOut.data) > 0
    THEN IF apiOut.data[1].url # ""
         THEN DownloadImage(s, fs, now, apiOut.data[1].url, fetchOut, writeOk)
         ELSE IF apiOut.data[1].b64_json # ""
         THEN StoreImage(s, fs, now, b64decode(apiOut.data[1].b64_json), <<>>, writeOk)
         ELSE Effects(s, fs, <<Msg("error", "No image URL or base64 data found in the response.", "")>>,
                      <<>>, <<>>, <<>>, None)
    ELSE Effects(s, fs, <<Msg("error", "Response data is empty.", "")>>,
                 <<>>, <<>>, <<>>, None)

\* compose the prompt, call the image API once, process what it answers
RequestImage(f, s, fs, now, apiOut, fetchOut, writeOk) ==
    LET enriched_prompt == ComposeForm(f)
        call == [op |-> "generate", model |-> "gpt-image-1", prompt |-> enriched_prompt,
                 image |-> None]
        e == IF apiOut.raised # ""
             THEN Effects(s, fs, <<Msg("error", "Error during image generation: ", apiOut.raised)>>,
                          <<>>, <<>>, <<>>, None)
             ELSE ProcessResponse(s, fs, now, apiOut, fetchOut, writeOk)
    IN  [e EXCEPT !.api = <<call>>, !.prompt = Some(enriched_prompt)]

\* GenerateImage without the test of product_type
GenerateImage_unvalidated(f, s, fs, now, apiOut, fetchOut, writeOk) ==
    IF get_api_key = ""
    THEN Effects(s, fs, <<KeyNotFound>>, <<>>, <<>>, <<>>, None)
    ELSE RequestImage(f, s, fs, now, apiOut, fetchOut, writeOk)

GenerateImage(f, s, fs, now, apiOut, fetchOut, writeOk) ==
    IF f.product_type = ""
    THEN Effects(s, fs, <<Msg("error", "Please enter at least the product type.", "")>>,
                 <<>>, <<>>, <<>>, None)
    ELSE IF get_api_key = ""
    THEN Effects(s, fs, <<KeyNotFound>>, <<>>, <<>>, <<>>, None)
    ELSE RequestImage(f, s, fs, now, apiOut, fetchOut, writeOk)

(***************************************************************************)
(* app.py: the Edit Image handler and the display column.                  *)
(***************************************************************************)
\* st.success, then Image.open and st.image of the edited bytes
PresentEdited(s, fs, fetches, edited_image_bytes) ==
    IF IsImage(edited_image_bytes)
    THEN Effects(s, fs, <<Msg("success", "Image edited successfully!", "")>>,
                 <<>>, fetches,
                 <<Shown("edit", edited_image_bytes,
                         IF fetches = <<>> THEN None ELSE Some(fetches[1]))>>, None)
    ELSE \* Image.open raises: the handler's except reports it
         Effects(s, fs, <<Msg("success", "Image edited successfully!", ""),
                          Msg("error", "Error editing image: ", "UnidentifiedImageError")>>,
                 <<>>, fetches, <<>>, None)

\* DownloadEdited writing the edited image over the generated one
DownloadEdited_overwriting(s, fs, now, edited_image_url, fetchOut, writeOk) ==
    LET s1 == [s EXCEPT !.edited_image_url = Some(edited_image_url)]
        fetch == <<Fetch("edit", edited_image_url, fetchOut)>>
        edited_filename == FileName("ikai_asai_image_", now)
    IN  IF fetchOut.raised
        THEN Effects(s1, fs, <<Msg("error", "Error editing image: ", "ConnectionError")>>,
                     <<>>, fetch, <<>>, None)
        ELSE IF fetchOut.status_code = 200
        THEN LET s2 == [s1 EXCEPT !.edited_image_bytes = Some(fetchOut.content),
                                  !.edited_image_bytesio = Some(fetchOut.content)]
             IN  IF writeOk
                 THEN PresentEdited([s2 EXCEPT !.edited_image_filename = Some(edited_filename)],
                                    [fs EXCEPT ![edited_filename] = Some(fetchOut.content)],
                                    fetch, fetchOut.content)
                 ELSE \* open() or write() raises: the handler's except reports it
                      Effects(s2, fs, <<Msg("error", "Error editing image: ", "OSError")>>,
                              <<>>, fetch, <<>>, None)
        ELSE Effects(s1, fs, <<Msg("error", "Failed to download edited image: HTTP ",
                                   ToString(fetchOut.status_code))>>,
                     <<>>, fetch, <<>>, None)

\* the URL branch of the edit
DownloadEdited(s, fs, now, edited_image_url, fetchOut, writeOk) ==
    LET s1 == [s EXCEPT !.edited_image_url = Some(edited_image_url)]
        fetch == <<Fetch("edit", edited_image_url, fetchOut)>>
        edited_filename == FileName("ikai_asai_edited_", now)
    IN  IF fetchOut.raised
        THEN Effects(s1, fs, <<Msg("error", "Error editing image: ", "ConnectionError")>>,
                     <<>>, fetch, <<>>, None)
        ELSE IF fetchOut.status_code = 200
        THEN LET s2 == [s1 EXCEPT !.edited_image_bytes = Some(fetchOut.content),
                                  !.edited_image_bytesio = Some(fetchOut.content)]
             IN  IF writeOk
                 THEN PresentEdited([s2 EXCEPT !.edited_image_filename = Some(edited_filename)],
                                    [fs EXCEPT ![edited_filename] = Some(fetchOut.content)],
                                    fetch, fetchOut.content)
                 ELSE \* open() or write() raises: the handler's except reports it
                      Effects(s2, fs, <<Msg("error", "Error editing image: ", "OSError")>>,
                              <<>>, fetch, <<>>, None)
        ELSE Effects(s1, fs, <<Msg("error", "Failed to download edited image: HTTP ",
                                   ToString(fetchOut.status_code))>>,
                     <<>>, fetch, <<>>, None)

\* the response of client.images.edit
ProcessEdited(s, fs, now, apiOut, fetchOut, writeOk) ==
    IF Len(apiOut.data) > 0
    THEN IF apiOut.data[1].url # ""
         THEN DownloadEdited(s, fs, now, apiOut.data[1].url, fetchOut, writeOk)
         ELSE IF apiOut.data[1].b64_json # ""
         THEN LET edited_image_bytes == b64decode(apiOut.data[1].b64_json)
                  edited_filename == FileName("ikai_asai_edited_", now)
              IN  IF writeOk
                  THEN PresentEdited(s, [fs EXCEPT ![edited_filename] = Some(edited_image_bytes)],
                                     <<>>, edited_image_bytes)
                  ELSE Effects(s, fs, <<Msg("error", "Error editing image: ", "OSError")>>,
                               <<>>, <<>>, <<>>, None)
         ELSE Effects(s, fs, <<Msg("error", "No edited image data found in the response.", "")>>,
                      <<>>, <<>>, <<>>, None)
    ELSE Effects(s, fs, <<Msg("error", "Edit response data is empty.", "")>>,
                 <<>>, <<>>, <<>>, None)

\* EditImage saying nothing when the session names no image file
EditImage_silent(edit_prompt, s, fs, now, apiOut, fetchOut, writeOk) ==
    IF edit_prompt = ""
    THEN Effects(s, fs, <<Msg("error", "Please enter an edit prompt.", "")>>,
                 <<>>, <<>>, <<>>, None)
    ELSE IF get_api_key = ""
    THEN Effects(s, fs, <<KeyNotFound>>, <<>>, <<>>, <<>>, None)
    ELSE IF s.image_filename = None
    THEN Effects(s, fs, <<>>, <<>>, <<>>, <<>>, None)
    ELSE
    LET call == [op |-> "edit", model |-> "gpt-image-1", prompt |-> edit_prompt,
                 image |-> fs[s.image_filename[1]]]
        e == IF apiOut.raised # ""
             THEN Effects(s, fs, <<Msg("error", "Error editing image: ", apiOut.raised)>>,
                          <<>>, <<>>, <<>>, None)
             ELSE ProcessEdited(s, fs, now, apiOut, fetchOut, writeOk)
    IN  [e EXCEPT !.api = <<call>>]

EditImage(edit_prompt, s, fs, now, apiOut, fetchOut, writeOk) ==
    IF edit_prompt = ""
    THEN Effects(s, fs, <<Msg("error", "Please enter an edit prompt.", "")>>,
                 <<>>, <<>>, <<>>, None)
    ELSE IF get_api_key = ""
    THEN Effects(s, fs, <<KeyNotFound>>, <<>>, <<>>, <<>>, None)
    ELSE IF s.image_filename = None
    THEN Effects(s, fs, <<Msg("error", "No image file available for editing.", "")>>,
                 <<>>, <<>>, <<>>, None)
    ELSE IF fs[s.image_filename[1]] = None
    THEN \* open() raises FileNotFoundError
         Effects(s, fs, <<Msg("error", "Error editing image: ", "FileNotFoundError")>>,
                 <<>>, <<>>, <<>>, None)
    ELSE
    LET call == [op |-> "edit", model |-> "gpt-image-1", prompt |-> edit_prompt,
                 image |-> fs[s.image_filename[1]]]
        e == IF apiOut.raised # ""
             THEN Effects(s, fs, <<Msg("error", "Error editing image: ", apiOut.raised)>>,
                          <<>>, <<>>, <<>>, None)
             ELSE ProcessEdited(s, fs, now, apiOut, fetchOut, writeOk)
    IN  [e EXCEPT !.api = <<call>>]

\* the Edit Image button is rendered: the session holds an image that opens,
\* and the file of the download button can be read
EditButtonShown(s, fs) ==
    /\ s.image_bytesio # None
    /\ IsImage(s.image_bytesio[1])
    /\ s.image_filename # None => fs[s.image_filename[1]] # None

\* the fallback of the display: fetch image_url (again) and show whatever
\* opens as an image; the status of the fetch is not looked at
DisplayFromUrl(s, fs, dispFetch) ==
    LET fetch == Fetch("display", s.image_url[1], dispFetch)
    IN  IF dispFetch.raised
        THEN Effects(s, fs, <<Msg("error", "Error displaying image: ", "ConnectionError")>>,
                     <<>>, <<fetch>>, <<>>, None)
        ELSE IF IsImage(dispFetch.content)
        THEN Effects(s, fs, <<>>, <<>>, <<fetch>>,
                     <<Shown("display", dispFetch.content, Some(fetch))>>, None)
        ELSE Effects(s, fs, <<Msg("error", "Error displaying image: ", "UnidentifiedImageError")>>,
                     <<>>, <<fetch>>, <<>>, None)

\* col2 of app.py; edit_button says that Edit Image was clicked
Display(s, fs, now, edit_button, edit_prompt, apiOut, fetchOut, writeOk, dispFetch) ==
    IF s.image_bytesio # None
    THEN LET shown == <<Shown("display", s.image_bytesio[1], None)>>
         IN  IF ~IsImage(s.image_bytesio[1])
             THEN Effects(s, fs, <<Msg("error", "Error displaying image: ", "UnidentifiedImageError")>>,
                          <<>>, <<>>, <<>>, None)
             ELSE IF s.image_filename # None /\ fs[s.image_filename[1]] = None
             THEN \* the download button cannot open the file
                  Effects(s, fs, <<Msg("error", "Error displaying image: ", "FileNotFoundError")>>,
                          <<>>, <<>>, shown, None)
             ELSE IF edit_button
             THEN LET e == EditImage(edit_prompt, s, fs, now, apiOut, fetchOut, writeOk)
                  IN  [e EXCEPT !.shown = shown \o e.shown]
             ELSE Effects(s, fs, <<>>, <<>>, <<>>, shown, None)
    ELSE IF s.image_url # None
    THEN DisplayFromUrl(s, fs, dispFetch)
    ELSE Effects(s, fs, <<>>, <<>>, <<>>, <<>>, None)

(***************************************************************************)
(* app1.py: Generate Enhanced Prompt, Generate Image with this Prompt,     *)
(* the display and the sidebar.                                            *)
(***************************************************************************)
\* app1.py's get_api_key: the environment, else the session's key
get_api_key1(s) ==
    IF env_key # "" THEN env_key
    ELSE IF s.api_key # None THEN s.api_key[1]
    ELSE ""

\* GeneratePrompt dropping the stored prompt when the product type is empty
GeneratePrompt_clearing(f, s) ==
    IF f.product_type = ""
    THEN Effects([s EXCEPT !.prompt = None], <<>>,
                 <<Msg("error", "Please enter at least the product type.", "")>>,
                 <<>>, <<>>, <<>>, None)
    ELSE LET enriched_prompt == ComposeForm1(f)
         IN  Effects([s EXCEPT !.prompt = Some(enriched_prompt)], <<>>,
                     <<Msg("success", "Prompt generated successfully!", "")>>,
                     <<>>, <<>>, <<>>, Some(enriched_prompt))

GeneratePrompt(f, s) ==
    IF f.product_type = ""
    THEN Effects(s, <<>>, <<Msg("error", "Please enter at least the product type.", "")>>,
                 <<>>, <<>>, <<>>, None)
    ELSE LET enriched_prompt == ComposeForm1(f)
         IN  Effects([s EXCEPT !.prompt = Some(enriched_prompt)], <<>>,
                     <<Msg("success", "Prompt generated successfully!", "")>>,
                     <<>>, <<>>, <<>>, Some(enriched_prompt))

\* the Generate Image with this Prompt button is rendered
ImageButtonShown(s) ==
    /\ s.prompt # None
    /\ s.prompt[1] # ""
    /\ get_api_key1(s) # ""

GenerateImage1(s, apiOut) ==
    LET call == [op |-> "generate", model |-> "dall-e-3", prompt |-> s.prompt[1],
                 image |-> None]
    IN  IF apiOut.raised # ""
        THEN Effects(s, <<>>, <<Msg("error", "Error generating image: ", apiOut.raised)>>,
                     <<call>>, <<>>, <<>>, None)
        ELSE IF Len(apiOut.data) > 0 /\ apiOut.data[1].url # ""
        THEN Effects([s EXCEPT !.image_url = Some(apiOut.data[1].url)], <<>>,
                     <<Msg("success", "Image generated successfully!", "")>>,
                     <<call>>, <<>>, <<>>, None)
        ELSE Effects(s, <<>>, <<Msg("error", "No image URL received in the response.", "")>>,
                     <<call>>, <<>>, <<>>, None)

\* col2 of app1.py; image_button says that the image button was clicked
Display1(s, image_button, apiOut, dispFetch) ==
    IF s.prompt # None /\ s.prompt[1] # ""
    THEN LET g == IF get_api_key1(s) # ""
                  THEN IF image_button
                       THEN GenerateImage1(s, apiOut)
                       ELSE Effects(s, <<>>, <<>>, <<>>, <<>>, <<>>, None)
                  ELSE Effects(s, <<>>,
                               <<Msg("info", "To generate images directly, please set your OpenAI API key in the sidebar.", "")>>,
                               <<>>, <<>>, <<>>, None)
         IN  IF g.ss.image_url # None /\ g.ss.image_url[1] # ""
             THEN LET fetch == Fetch("display", g.ss.image_url[1], dispFetch)
                  IN  IF dispFetch.raised
                      THEN [g EXCEPT !.fetches = <<fetch>>,
                                     !.msgs = @ \o <<Msg("error", "Error displaying image: ",
                                                         "ConnectionError")>>]
                      ELSE IF IsImage(dispFetch.content)
                      THEN [g EXCEPT !.fetches = <<fetch>>,
                                     !.shown = <<Shown("display", dispFetch.content, Some(fetch))>>]
                      ELSE [g EXCEPT !.fetches = <<fetch>>,
                                     !.msgs = @ \o <<Msg("error", "Error displaying image: ",
                                                         "UnidentifiedImageError")>>]
             ELSE g
    ELSE Effects(s, <<>>, <<>>, <<>>, <<>>, <<>>, None)

\* the sidebar: a non-empty widget value becomes the session's key
Sidebar(s, input) == IF input # "" THEN [s EXCEPT !.api_key = Some(input)] ELSE s

(***************************************************************************)
(* The script runs.                                                        *)
(***************************************************************************)
\* the forms of the script runs: the user types a product type or leaves it
\* empty, and picks a lighting or none
UIForms ==
    [product_type : {"", "bowl"},
     material : {"ceramic"},
     color : {""},
     size : {""},
     additional_details : {""},
     lighting : {"", "Natural sunlight through window"},
     background : {""},
     composition : {""},
     mood : {""}]

\* the forms of app.py's runs: the user picks a lighting and leaves the
\* product type empty, or types a product type
MainForms == {f \in UIForms : (f.product_type = "") = (f.lighting # "")}

\* the widgets before the user touched them
DefaultForm ==
    [product_type |-> "", material |-> MaterialOptions[1], color |-> "", size |-> "",
     additional_details |-> "", lighting |-> "", background |-> "",
     composition |-> "", mood |-> ""]

EditPrompts == {"", "make it taller"}
EnvKeys == {"", "sk-env"}
KeyInputs == {"", "sk-user"}

\* stands for the outcome of a fetch that is never made
NoFetchOut == [raised |-> TRUE, status_code |-> 0, content |-> <<>>]

\* the outcomes to choose from for a fetch that is made iff needed
FetchChoices(needed) == IF needed THEN FetchOutcomes ELSE {NoFetchOut}

\* stands for the outcome of an API call that is never made
NoApiOut == [raised |-> "", data |-> <<>>]

\* the outcomes to choose from for an API call that is made iff needed
ApiChoices(needed) == IF needed THEN ApiOutcomes ELSE {NoApiOut}

\* the handler reaches the URL branch
NeedsFetch(apiOut) ==
    /\ apiOut.raised = ""
    /\ Len(apiOut.data) > 0
    /\ apiOut.data[1].url # ""

\* the handler reaches the writing of the file: the URL was fetched with
\* status 200, or there is no URL and an inline payload
NeedsWrite(apiOut, fetchOut) ==
    /\ apiOut.raised = ""
    /\ Len(apiOut.data) > 0
    /\ IF apiOut.data[1].url # ""
       THEN ~fetchOut.raised /\ fetchOut.status_code = 200
       ELSE apiOut.data[1].b64_json # ""

\* the outcomes of open() and write() to choose from: TRUE when the file is
\* written, FALSE when an OSError is raised
WriteChoices(needed) == IF needed THEN BOOLEAN ELSE {TRUE}

\* app.py's display falls back to fetching image_url
NeedsDisplayFetch(s) == s.image_bytesio = None /\ s.image_url # None

\* what app.py's Download Image button offers: the content of the file named
\* by image_filename, read when the column is rendered
Offered(s, fs) ==
    IF s.image_bytesio # None /\ IsImage(s.image_bytesio[1]) /\ s.image_filename # None
    THEN fs[s.image_filename[1]]
    ELSE None

RunOf(trigger, apiOut, h, d) ==
    [trigger |-> trigger,
     msgs |-> h.msgs \o d.msgs,
     api |-> h.api \o d.api,
     api_result |-> IF h.api \o d.api # <<>> THEN Some(apiOut) ELSE None,
     fetches |-> h.fetches \o d.fetches,
     shown |-> h.shown \o d.shown,
     download |-> Offered(d.ss, d.files)]

NoEffects(s, fs) == Effects(s, fs, <<>>, <<>>, <<>>, <<>>, None)

Init ==
    /\ app \in {"app.py", "app1.py"}
    /\ env_key \in EnvKeys
    /\ form = DefaultForm
    /\ prompt = None
    /\ ss = EmptySession
    /\ files = [n \in FileNames |-> None]
    /\ clock = 0
    /\ api_key_input = env_key
    /\ peer = EmptySession
    /\ run = NoRun

\* app.py: the user changes a widget of the form, the script runs again
Rerun ==
    /\ app = "app.py"
    /\ \E f \in MainForms :
       \E dispFetch \in FetchChoices(NeedsDisplayFetch(ss)) :
       \E h \in {NoEffects(ss, files)} :
       \E d \in {Display(ss, files, clock, FALSE, "", NoApiOut, NoFetchOut, TRUE, dispFetch)} :
              /\ form' = f
              /\ prompt' = None
              /\ ss' = d.ss
              /\ files' = d.files
              /\ run' = RunOf("rerun", NoApiOut, h, d)
    /\ UNCHANGED <<app, env_key, clock, api_key_input, peer>>

\* app.py: the user clicks Generate Image
GenerateClick ==
    /\ app = "app.py"
    /\ \E f \in MainForms :
       \E apiOut \in ApiChoices(f.product_type # "" /\ get_api_key # "") :
       \E fetchOut \in FetchChoices(NeedsFetch(apiOut)) :
       \E writeOk \in WriteChoices(NeedsWrite(apiOut, fetchOut)) :
       \E h \in {GenerateImage(f, ss, files, clock, apiOut, fetchOut, writeOk)} :
       \E dispFetch \in FetchChoices(NeedsDisplayFetch(h.ss)) :
       \E d \in {Display(h.ss, h.files, clock, FALSE, "", apiOut, fetchOut, writeOk, dispFetch)} :
                     /\ form' = f
                     /\ prompt' = h.prompt
                     /\ ss' = d.ss
                     /\ files' = d.files
                     /\ run' = RunOf("generate", apiOut, h, d)
    /\ UNCHANGED <<app, env_key, clock, api_key_input, peer>>

\* app.py: the user clicks Edit Image
EditClick ==
    /\ app = "app.py"
    /\ EditButtonShown(ss, files)
    /\ \E edit_prompt \in EditPrompts :
       \E apiOut \in ApiChoices(edit_prompt # "" /\ get_api_key # "" /\ ss.image_filename # None) :
       \E fetchOut \in FetchChoices(NeedsFetch(apiOut)) :
       \E writeOk \in WriteChoices(NeedsWrite(apiOut, fetchOut)) :
       \E h \in {NoEffects(ss, files)} :
       \E d \in {Display(ss, files, clock, TRUE, edit_prompt, apiOut, fetchOut, writeOk, NoFetchOut)} :
              /\ prompt' = None
              /\ ss' = d.ss
              /\ files' = d.files
              /\ run' = RunOf("edit", apiOut, h, d)
    /\ UNCHANGED <<app, env_key, form, clock, api_key_input, peer>>

\* a second passes
Tick ==
    /\ clock < MaxClock
    /\ clock' = clock + 1
    /\ UNCHANGED <<app, env_key, form, prompt, ss, files, api_key_input, peer, run>>

\* app1.py: one script run
Run1(trigger, f, input, apiOut, dispFetch) ==
    \E h \in {IF trigger = "prompt" THEN GeneratePrompt(f, ss) ELSE NoEffects(ss, <<>>)} :
    \E d \in {Display1(h.ss, trigger = "generate1", apiOut, dispFetch)} :
        /\ form' = f
        /\ prompt' = h.prompt
        /\ ss' = Sidebar(d.ss, input)
        /\ api_key_input' = input
        /\ run' = RunOf(trigger, apiOut, h, d)
        /\ UNCHANGED <<app, env_key, files, clock, peer>>

\* app1.py's display fetches image_url after the handler h
NeedsDisplayFetch1(s) ==
    /\ s.prompt # None
    /\ s.image_url # None

\* app1.py: the user changes a widget of the form or the sidebar's key
Rerun1 ==
    /\ app = "app1.py"
    /\ \E f \in UIForms, input \in KeyInputs \cup {env_key} :
       \E dispFetch \in FetchChoices(NeedsDisplayFetch1(ss)) :
          Run1("rerun", f, input, NoApiOut, dispFetch)

\* app1.py: the user clicks Generate Enhanced Prompt
PromptClick ==
    /\ app = "app1.py"
    /\ \E f \in UIForms :
       \E dispFetch \in FetchChoices(NeedsDisplayFetch1(GeneratePrompt(f, ss).ss)) :
          Run1("prompt", f, api_key_input, NoApiOut, dispFetch)

\* app1.py: the user clicks Generate Image with this Prompt
ImageClick ==
    /\ app = "app1.py"
    /\ ImageButtonShown(ss)
    /\ \E apiOut \in ApiOutcomes :
       \E dispFetch \in FetchChoices(NeedsDisplayFetch1(GenerateImage1(ss, apiOut).ss)) :
          Run1("generate1", form, api_key_input, apiOut, dispFetch)

Next ==
    \/ Rerun
    \/ GenerateClick
    \/ EditClick
    \/ Tick
    \/ Rerun1
    \/ PromptClick
    \/ ImageClick

Spec == Init /\ [][Next]_vars

(***************************************************************************)
(* Two sessions of app.py: Streamlit gives each browser session its own    *)
(* st.session_state; the script's working directory and clock are shared.  *)
(***************************************************************************)
\* what the service sends the other session: its images are its own, the
\* base64 of the PNG bytes 137 80 72
PeerPayload == "iVBI"

\* the form of the other session
PeerForm == [DefaultForm EXCEPT !.product_type = "vase"]

InitSessions ==
    /\ app = "app.py"
    /\ env_key = "sk-env"
    /\ form = DefaultForm
    /\ prompt = None
    /\ ss = EmptySession
    /\ files = [n \in FileNames |-> None]
    /\ clock = 0
    /\ api_key_input = env_key
    /\ peer = EmptySession
    /\ run = NoRun

\* the other session clicks Generate Image: the same handler, run on that
\* session's state and on the shared directory and clock
PeerGenerate ==
    /\ app = "app.py"
    /\ \E h \in {GenerateImage(PeerForm, peer, files, clock,
                                [raised |-> "", data |-> <<[url |-> "", b64_json |-> PeerPayload]>>],
                                NoFetchOut, TRUE)} :
          /\ peer' = h.ss
          /\ files' = h.files
    /\ UNCHANGED <<app, env_key, form, prompt, ss, clock, api_key_input, run>>

NextSessions ==
    \/ Rerun
    \/ GenerateClick
    \/ EditClick
    \/ Tick
    \/ PeerGenerate

SpecSessions == InitSessions /\ [][NextSessions]_vars

(***************************************************************************)
(* enhanced_enrich_prompt on its own: each script's function applied once   *)
(* to any arguments.                                                       *)
(***************************************************************************)
InitCompose ==
    /\ app = "compose"
    /\ env_key = ""
    /\ form \in Forms
    /\ prompt = None
    /\ ss = EmptySession
    /\ files = [n \in FileNames |-> None]
    /\ clock = 0
    /\ api_key_input = ""
    /\ peer = EmptySession
    /\ run = NoRun

ComposeCall ==
    /\ app = "compose"
    /\ prompt = None
    /\ prompt' = Some(ComposeForm(form))
    /\ UNCHANGED <<app, env_key, form, ss, files, clock, api_key_input, peer, run>>

\* app1.py's function applied to the same arguments; its handler keeps the
\* result in the session
ComposeCall1 ==
    /\ app = "compose"
    /\ ss.prompt = None
    /\ ss' = [ss EXCEPT !.prompt = Some(ComposeForm1(form))]
    /\ UNCHANGED <<app, env_key, form, prompt, files, clock, api_key_input, peer, run>>

NextCompose ==
    \/ ComposeCall
    \/ ComposeCall1

SpecCompose == InitCompose /\ [][NextCompose]_vars

(***************************************************************************)
(* Properties of the prompt composer (checked under SpecCompose).          *)
(***************************************************************************)
\* the brand-style paragraph, as the prompt must carry it
BrandStyle ==
    "handcrafted, minimalist design with an earthy aesthetic. The style draws inspiration from natural materials like ceramic, wood, and metal, emphasizing rustic, organic textures. Products are elegant, functional, and often presented in soft, natural lighting with a serene, contemporary feel, blending traditional Indian craftsmanship with modern sensibilities."

\* P: the product clause of a form
ProductClause(f) ==
    "a " \o f.color \o " " \o f.product_type \o " made of " \o f.material
    \o (IF f.size # "" THEN ", size " \o f.size ELSE "")
    \o (IF f.additional_details # "" THEN ". " \o f.additional_details ELSE "")

\* the style fields in their fixed order, each with its label
StyleFields(f) ==
    <<<<"Lighting:", f.lighting>>, <<"Background:", f.background>>,
      <<"Composition:", f.composition>>, <<"Mood:", f.mood>>>>

StyleLabels == {"Lighting:", "Background:", "Composition:", "Mood:"}

\* the labeled clause of one style field
LabeledClause(label, v) == " " \o label \o " " \o v \o "."

\* S: the labeled clauses of the non-empty fields, in order
RECURSIVE StyleClauses(_)
StyleClauses(fields) ==
    IF fields = <<>> THEN ""
    ELSE (IF Head(fields)[2] # "" THEN LabeledClause(Head(fields)[1], Head(fields)[2]) ELSE "")
         \o StyleClauses(Tail(fields))

\* the style fields of a form that are chosen
ChosenStyles(f) == {i \in 1..4 : StyleFields(f)[i][2] # ""}

\* no free-text field of the form carries a style label
LabelFree(f) ==
    \A t \in {f.product_type, f.color, f.size, f.additional_details} :
       \A label \in StyleLabels : ~Contains(t, label)

\* how often the style labels occur in a string
LabelCount(out) ==
    Cardinality({<<label, i>> \in StyleLabels \X (1..Len(out)) : OccursAt(out, label, i)})

\* C1: for all arguments, enhanced_enrich_prompt returns
\* "Create an image of " + P + ". Style: " + B + S
C1_PromptFormat ==
    prompt # None =>
        prompt[1] = "Create an image of " \o ProductClause(form) \o ". Style: "
                    \o BrandStyle \o StyleClauses(StyleFields(form))

\* the scenario of the specification: every product field and the lighting
C1_Witness ==
    /\ form = [product_type |-> "bowl", material |-> "ceramic", color |-> "earthen brown",
               size |-> "10cm x 5cm", additional_details |-> "with geometric patterns",
               lighting |-> "Soft diffused studio light", background |-> "",
               composition |-> "", mood |-> ""]
    /\ prompt = Some("Create an image of a earthen brown bowl made of ceramic, size 10cm x 5cm. with geometric patterns. Style: "
                     \o BrandStyle \o " Lighting: Soft diffused studio light.")

\* C2 as stated: with no style chosen, the prompt of any valid product has
\* none of the four labels as a substring
C2_NoLabelsAnyText ==
    (prompt # None /\ form.product_type # "" /\ ChosenStyles(form) = {}) =>
        \A label \in StyleLabels : ~Contains(prompt[1], label)

\* C2 (amended): with no style chosen and no label typed into a free-text
\* field, the prompt has none of the four labels as a substring
C2_NoLabels ==
    (prompt # None /\ form.product_type # "" /\ ChosenStyles(form) = {} /\ LabelFree(form)) =>
        \A label \in StyleLabels : ~Contains(prompt[1], label)

C2_Witness ==
    /\ prompt # None
    /\ ChosenStyles(form) = {}
    /\ LabelFree(form)
    /\ form.product_type # "" /\ form.color # "" /\ form.size # ""
    /\ form.additional_details # ""
    /\ \A label \in StyleLabels : ~Contains(prompt[1], label)

\* exactly one label occurs in the prompt, in the clause of the one chosen
\* style field, and that clause starts after the product clause
OneLabeledClause(f, out) ==
    \E k \in ChosenStyles(f) :
       LET clause == LabeledClause(StyleFields(f)[k][1], StyleFields(f)[k][2])
       IN  /\ LabelCount(out) = 1
           /\ Cardinality(Occurrences(out, clause)) = 1
           /\ \A i \in Occurrences(out, clause) :
                 i > Len("Create an image of " \o ProductClause(f))

\* C3 as stated: with exactly one style chosen, the prompt of any valid
\* product has exactly one labeled clause, that field's, after the product
C3_OneClauseAnyText ==
    (prompt # None /\ form.product_type # "" /\ Cardinality(ChosenStyles(form)) = 1) =>
        OneLabeledClause(form, prompt[1])

\* C3 (amended): the same, for products with no label typed into a
\* free-text field
C3_OneClause ==
    (prompt # None /\ form.product_type # "" /\ Cardinality(ChosenStyles(form)) = 1
     /\ LabelFree(form)) =>
        OneLabeledClause(form, prompt[1])

C3_Witness ==
    /\ prompt # None
    /\ form.product_type # ""
    /\ LabelFree(form)
    /\ ChosenStyles(form) = {2}
    /\ OneLabeledClause(form, prompt[1])

(***************************************************************************)
(* Properties of the script runs (checked under Spec).                     *)
(***************************************************************************)
\* the latest run r was a click on a generate button (app.py, app1.py)
IsGenerate(r) == r.trigger \in {"generate", "generate1"}

\* the API call of run r returned a response (it did not raise)
Answered(r) == r.api_result # None /\ r.api_result[1].raised = ""

\* ... whose data list is empty
EmptyData(r) == Answered(r) /\ r.api_result[1].data = <<>>

\* ... whose first entry has only the inline payload / neither field / a URL
InlineOnly(r) ==
    /\ Answered(r)
    /\ Len(r.api_result[1].data) > 0
    /\ r.api_result[1].data[1].url = ""
    /\ r.api_result[1].data[1].b64_json # ""

NoPayload(r) ==
    /\ Answered(r)
    /\ Len(r.api_result[1].data) > 0
    /\ r.api_result[1].data[1].url = ""
    /\ r.api_result[1].data[1].b64_json = ""

UrlEntry(r) ==
    /\ Answered(r)
    /\ Len(r.api_result[1].data) > 0
    /\ r.api_result[1].data[1].url # ""

\* the API call of run r raised an error with the moderation marker
ModerationBlocked(r) ==
    /\ r.api_result # None
    /\ Contains(r.api_result[1].raised, "moderation_blocked")

\* the URL fetches of the handler of run r (not those of the display)
HandlerFetches(r) == SelectSeq(r.fetches, LAMBDA ft : ft.by # "display")

\* the fixed texts of the messages of one level that run r reported
Texts(msgs, level) == {msgs[i].text : i \in {k \in DOMAIN msgs : msgs[k].level = level}}

\* the error texts the generate handler of script a reports for an API
\* outcome (they do not depend on the session)
ReportTexts(a, f, s, fs, apiOut, fetchOut) ==
    IF a = "app1.py"
    THEN Texts(GenerateImage1(s, apiOut).msgs, "error")
    ELSE Texts(RequestImage(f, s, fs, 0, apiOut, fetchOut, TRUE).msgs, "error")

\* the image keys of the session
ImageKeys(s) ==
    <<s.image_bytes, s.image_bytesio, s.image_filename,
      s.edited_image_bytes, s.edited_image_bytesio, s.edited_image_filename>>

\* every prompt of the state was composed from a form with a product type
ComposedFromProduct(p) ==
    \E f \in UIForms : f.product_type # "" /\ p = ComposeForm(f)

\* C4: a click with an empty product type reports the validation error
\* whatever the other widgets hold, and composes and sends no prompt; every
\* prompt held or sent was composed for a non-empty product type
C4_EmptyProductTypeRejected ==
    /\ (run.trigger \in {"generate", "prompt"} /\ form.product_type = "") =>
          /\ Len(run.msgs) >= 1
          /\ run.msgs[1] = Msg("error", "Please enter at least the product type.", "")
          /\ Texts(run.msgs, "success") = {}
          /\ prompt = None
          /\ run.api = <<>>
    /\ prompt # None => form.product_type # "" /\ ComposedFromProduct(prompt[1])
    /\ ss.prompt # None => ComposedFromProduct(ss.prompt[1])
    /\ \A i \in DOMAIN run.api :
          run.api[i].op = "generate" => ComposedFromProduct(run.api[i].prompt)

\* Generate Image clicked with an empty product type, the API key and the
\* lighting set, an earlier image in the session
C4_Witness ==
    /\ app = "app.py"
    /\ run.trigger = "generate"
    /\ form.product_type = ""
    /\ form.lighting # ""
    /\ env_key # ""
    /\ ss.image_bytes # None
    /\ run.msgs = <<Msg("error", "Please enter at least the product type.", "")>>
    /\ prompt = None

\* C5: a generate answered with only the inline payload succeeds, the
\* session holds the decoded payload, and the handler fetches no URL
C5_InlineOnlyStored ==
    (IsGenerate(run) /\ InlineOnly(run)) =>
        /\ "Image generated successfully!" \in Texts(run.msgs, "success")
        /\ ss.image_bytes = Some(b64decode(run.api_result[1].data[1].b64_json))
        /\ ss.image_bytesio = ss.image_bytes
        /\ run.api_result[1].data[1].b64_json = "iVBH" => ss.image_bytes = Some(<<137, 80, 71>>)
        /\ HandlerFetches(run) = <<>>

\* C6: a generate answered with an empty data list reports an error that
\* no other API outcome is reported with, stores no image and fetches no URL
C6_EmptyResponseStep ==
    (IsGenerate(run') /\ EmptyData(run')) =>
        /\ Texts(run'.msgs, "success") = {}
        /\ Texts(run'.msgs, "error") # {}
        /\ \A other \in ApiOutcomes, fetchOut \in FetchOutcomes :
              (other.raised # "" \/ other.data # <<>>) =>
                  ReportTexts(app', form', ss', files', other, fetchOut)
                  \cap Texts(run'.msgs, "error") = {}
        /\ ImageKeys(ss') = ImageKeys(ss)
        /\ ss'.image_url = ss.image_url
        /\ files' = files
        /\ HandlerFetches(run') = <<>>

C6_EmptyResponse == [][C6_EmptyResponseStep]_vars

\* C7: a generate whose API call raises with "moderation_blocked" reports
\* an error that is not the one reported for the other client errors
C7_ModerationDistinct ==
    (IsGenerate(run) /\ ModerationBlocked(run)) =>
        \A e \in ClientErrors :
           ~Contains(e, "moderation_blocked") =>
               ReportTexts(app, form, ss, files, [raised |-> e, data |-> <<>>], NoFetchOut)
               \cap Texts(run.msgs, "error") = {}

\* the no-payload error of app.py's handlers
NoPayloadError(trigger) ==
    IF trigger = "edit"
    THEN Msg("error", "No edited image data found in the response.", "")
    ELSE Msg("error", "No image URL or base64 data found in the response.", "")

\* C8: app.py's generate and edit, answered with an entry that has neither
\* a URL nor an inline payload, report the no-payload error; the session and
\* the files stay as they were, the handler fetches no URL and shows nothing
C8_NoPayloadStep ==
    (run'.trigger \in {"generate", "edit"} /\ NoPayload(run')) =>
        /\ Len(run'.msgs) >= 1
        /\ run'.msgs[1] = NoPayloadError(run'.trigger)
        /\ Texts(run'.msgs, "success") = {}
        /\ ss' = ss
        /\ files' = files
        /\ HandlerFetches(run') = <<>>
        /\ \A i \in DOMAIN run'.shown : run'.shown[i].by = "display"

C8_NoPayload == [][C8_NoPayloadStep]_vars

\* Edit Image was answered with no payload while the session held an image
C8_Witness ==
    /\ run.trigger = "edit"
    /\ NoPayload(run)
    /\ ss.image_bytes # None
    /\ run.msgs = <<NoPayloadError(run.trigger)>>

\* C9: when the response of a generate or edit carries a URL, a fetch of it
\* that returns a status other than 200 makes the handler report the
\* download error, and its body is not stored, not written, not shown
C9_FailedFetchStep ==
    (run'.trigger \in {"generate", "edit"} /\ UrlEntry(run')) =>
        \A i \in DOMAIN run'.fetches :
           (~run'.fetches[i].raised /\ run'.fetches[i].status_code # 200) =>
               /\ run'.fetches[i].by # "display" =>
                     Texts(run'.msgs, "error")
                     \cap {"Failed to download image: HTTP ",
                           "Failed to download edited image: HTTP "} # {}
               /\ ImageKeys(ss') = ImageKeys(ss)
               /\ files' = files
               /\ \A j \in DOMAIN run'.shown :
                     run'.shown[j].from # Some(run'.fetches[i])

C9_FailedFetch == [][C9_FailedFetchStep]_vars

\* C10: a generate or edit click issues at most one API call and at most
\* one URL fetch, at most two network calls in its run
C10_AtMostTwoCalls ==
    run.trigger \in {"generate", "generate1", "edit"} =>
        /\ Len(run.api) <= 1
        /\ Len(run.fetches) <= 1
        /\ Len(run.api) + Len(run.fetches) <= 2

\* the message app1.py shows in place of its image button
KeyInfo ==
    Msg("info", "To generate images directly, please set your OpenAI API key in the sidebar.", "")

\* a session of app.py that holds a generated image, as Edit Image needs it
WithImage(s, fs) ==
    [ss |-> [s EXCEPT !.image_bytes = Some(<<137, 80, 71>>),
                      !.image_bytesio = Some(<<137, 80, 71>>),
                      !.image_filename = Some(FileName("ikai_asai_image_", 0))],
     files |-> [fs EXCEPT ![FileName("ikai_asai_image_", 0)] = Some(<<137, 80, 71>>)]]

\* C11: with no API key, app.py's generate (product type given) reports the
\* key error, which no other path reports, calls no API, fetches no URL and
\* changes nothing; so does Edit Image, whatever the service would answer;
\* app1.py shows the hint in place of the image button, so that no generate
\* runs without a key
C11_MissingKeyStep ==
    /\ (app = "app.py" /\ env_key = "" /\ run'.trigger = "generate"
        /\ form'.product_type # "") =>
          /\ run'.msgs = <<KeyNotFound>>
          /\ run'.api = <<>>
          /\ run'.fetches = <<>>
          /\ prompt' = None
          /\ ss' = ss
          /\ files' = files
          /\ \A apiOut \in ApiOutcomes, fetchOut \in FetchOutcomes, writeOk \in BOOLEAN :
                KeyNotFound.text \notin
                   Texts(RequestImage(form', ss, files, clock, apiOut, fetchOut, writeOk).msgs, "error")
          /\ \A apiOut \in ApiOutcomes, fetchOut \in FetchOutcomes :
                LET w == WithImage(ss, files)
                IN  EditImage("make it taller", w.ss, w.files, clock, apiOut, fetchOut, TRUE)
                    = Effects(w.ss, w.files, <<KeyNotFound>>, <<>>, <<>>, <<>>, None)
    /\ (app = "app.py" /\ env_key = "" /\ run'.trigger = "edit") =>
          /\ run'.api = <<>>
          /\ run'.fetches = <<>>
          /\ ss' = ss
          /\ files' = files
    /\ (app = "app1.py" /\ get_api_key1(ss) = "") =>
          /\ run'.trigger # "generate1"
          /\ run'.api = <<>>
          /\ run'.fetches = <<>>
          /\ ss'.prompt # None => KeyInfo \in {run'.msgs[i] : i \in DOMAIN run'.msgs}

C11_MissingKey == [][C11_MissingKeyStep]_vars

\* Generate Image clicked with a product type and no API key
C11_Witness ==
    /\ app = "app.py"
    /\ env_key = ""
    /\ run.trigger = "generate"
    /\ form.product_type # ""
    /\ run.msgs = <<KeyNotFound>>
    /\ run.api = <<>>
    /\ run.fetches = <<>>

\* the images the service sends this session
OwnImages == ImageBodies \cup {b64decode(p) : p \in B64Payloads}

\* C12: with another session generating in the same directory, what this
\* session shows, offers for download and submits as the source of an edit
\* are images of its own requests
C12_SessionScoped ==
    /\ \A i \in DOMAIN run.shown : run.shown[i].bytes \in OwnImages
    /\ run.download # None => run.download[1] \in OwnImages
    /\ \A i \in DOMAIN run.api :
          run.api[i].image # None => run.api[i].image[1] \in OwnImages

\* C13: on identical arguments app.py's and app1.py's enhanced_enrich_prompt
\* return the same string, whichever is called first and whatever the
\* session holds, and a further call returns that string again
C13_Deterministic ==
    /\ (prompt # None /\ ss.prompt # None) => prompt = ss.prompt
    /\ prompt # None => prompt = Some(ComposeForm(form))
    /\ ss.prompt # None => ss.prompt = Some(ComposeForm1(form))

\* both functions were applied to a form with every kind of field filled
C13_Witness ==
    /\ app = "compose"
    /\ prompt # None
    /\ ss.prompt = prompt
    /\ form.color # "" /\ form.size # "" /\ form.additional_details # ""
    /\ form.lighting # "" /\ form.mood # ""

\* the first message of a run, the handler's
FirstMsg(r) == r.msgs[1]

\* the fetch the handler of run r made
HandlerFetch(r) == HandlerFetches(r)[1]

\* what app.py's Generate Image handler must report in run r, started with
\* form f: one message for each way through the handler
GenerateReports(r, f) ==
    IF f.product_type = ""
    THEN {Msg("error", "Please enter at least the product type.", "")}
    ELSE IF env_key = "" THEN {KeyNotFound}
    ELSE IF r.api_result[1].raised # ""
    THEN {Msg("error", "Error during image generation: ", r.api_result[1].raised)}
    ELSE IF EmptyData(r) THEN {Msg("error", "Response data is empty.", "")}
    ELSE IF NoPayload(r)
    THEN {Msg("error", "No image URL or base64 data found in the response.", "")}
    ELSE IF UrlEntry(r) /\ HandlerFetch(r).raised
    THEN {Msg("error", "Error during image generation: ", "ConnectionError")}
    ELSE IF UrlEntry(r) /\ HandlerFetch(r).status_code # 200
    THEN {Msg("error", "Failed to download image: HTTP ", ToString(HandlerFetch(r).status_code))}
    ELSE {Msg("success", "Image generated successfully!", ""),
          Msg("error", "Error during image generation: ", "OSError")}

\* the same for the Edit Image handler, run on session s
EditReports(r, s) ==
    IF r.api = <<>>
    THEN {Msg("error", "Please enter an edit prompt.", "")}
         \cup (IF env_key = "" THEN {KeyNotFound}
               ELSE IF s.image_filename = None
               THEN {Msg("error", "No image file available for editing.", "")}
               ELSE {})
    ELSE IF r.api_result[1].raised # ""
    THEN {Msg("error", "Error editing image: ", r.api_result[1].raised)}
    ELSE IF EmptyData(r) THEN {Msg("error", "Edit response data is empty.", "")}
    ELSE IF NoPayload(r) THEN {Msg("error", "No edited image data found in the response.", "")}
    ELSE IF UrlEntry(r) /\ HandlerFetch(r).raised
    THEN {Msg("error", "Error editing image: ", "ConnectionError")}
    ELSE IF UrlEntry(r) /\ HandlerFetch(r).status_code # 200
    THEN {Msg("error", "Failed to download edited image: HTTP ",
              ToString(HandlerFetch(r).status_code))}
    ELSE {Msg("success", "Image edited successfully!", ""),
          Msg("error", "Error editing image: ", "OSError")}

\* C14: every run of app.py's Generate Image and Edit Image reports a
\* message, the success or the error of the path taken; the success is
\* reported only when an image was stored or shown; an edit whose source
\* file is gone reports the error of open()
C14_ReportedStep ==
    /\ run'.trigger = "generate" =>
          /\ Len(run'.msgs) >= 1
          /\ FirstMsg(run') \in GenerateReports(run', form')
          /\ FirstMsg(run').level = "success" =>
                /\ ss'.image_bytes # None
                /\ ss'.image_filename # None
                /\ files'[ss'.image_filename[1]] = ss'.image_bytes
          /\ FirstMsg(run').level = "error" => FirstMsg(run').text # ""
    /\ run'.trigger = "edit" =>
          /\ Len(run'.msgs) >= 1
          /\ FirstMsg(run') \in EditReports(run', ss)
          /\ FirstMsg(run').level = "success" =>
                \E i \in DOMAIN run'.shown : run'.shown[i].by = "edit"
          /\ ss.image_filename # None =>
                EditImage("make it taller", ss, [files EXCEPT ![ss.image_filename[1]] = None],
                          clock, NoApiOut, NoFetchOut, TRUE).msgs
                = <<Msg("error", "Error editing image: ", "FileNotFoundError")>>

C14_Reported == [][C14_ReportedStep]_vars

\* Edit Image clicked on an image whose file could not be written
C14_Witness ==
    /\ run.trigger = "edit"
    /\ ss.image_bytes # None
    /\ ss.image_filename = None
    /\ run.msgs = <<Msg("error", "No image file available for editing.", "")>>

\* C15: app.py's generate sends the prompt composed from the form of the
\* click, whose product type is not empty; app1.py's generate sends
\* session_state.prompt, which only a Generate Enhanced Prompt click with a
\* product type changes, to the prompt composed from the form of that click
C15_PromptSentStep ==
    /\ run'.trigger = "generate" =>
          \A i \in DOMAIN run'.api :
             /\ run'.api[i].op = "generate"
             /\ form'.product_type # ""
             /\ run'.api[i].prompt = ComposeForm(form')
    /\ run'.trigger = "generate1" =>
          /\ Len(run'.api) = 1
          /\ run'.api[1].op = "generate"
          /\ ss.prompt # None
          /\ run'.api[1].prompt = ss.prompt[1]
          /\ ComposedFromProduct(run'.api[1].prompt)
          /\ ss'.prompt = ss.prompt
    /\ (run'.trigger = "prompt" /\ form'.product_type # "") =>
          ss'.prompt = Some(ComposeForm1(form'))
    /\ (app = "app1.py" /\ ~(run'.trigger = "prompt" /\ form'.product_type # "")) =>
          ss'.prompt = ss.prompt

C15_PromptSent == [][C15_PromptSentStep]_vars

\* app1.py sent the stored prompt after the form was changed to another
\* product style
C15_Witness ==
    /\ app = "app1.py"
    /\ run.trigger = "generate1"
    /\ Len(run.api) = 1
    /\ form.product_type # ""
    /\ run.api[1].prompt = ss.prompt[1]
    /\ run.api[1].prompt # ComposeForm1(form)

\* the first entry of the response of run r has the URL and the payload
BothEntry(r) == UrlEntry(r) /\ r.api_result[1].data[1].b64_json # ""

\* the bytes a URL of the service serves with status 200
Served == {Some(b) : b \in ImageBodies}

\* C16: when the first entry has a URL and an inline payload, app.py's
\* handlers fetch the URL once; on status 200 the bytes kept, written and
\* shown are the fetched ones, not the decoded payload; on another status
\* the download error is reported and nothing is kept, written or shown by
\* the handler, and neither when the fetch raises
C16_UrlWinsStep ==
    (run'.trigger \in {"generate", "edit"} /\ BothEntry(run')) =>
        LET entry == run'.api_result[1].data[1]
            inline == Some(b64decode(entry.b64_json))
            ft == HandlerFetches(run')
            ok == ~ft[1].raised /\ ft[1].status_code = 200
            written == FirstMsg(run').level = "success"
        IN  /\ Len(ft) = 1
            /\ ft[1].url = entry.url
            /\ inline \notin Served
            /\ (ok /\ run'.trigger = "generate") =>
                  /\ ss'.image_bytes \in Served
                  /\ ss'.image_bytesio = ss'.image_bytes
                  /\ written => files'[ss'.image_filename[1]] = ss'.image_bytes
            /\ (ok /\ run'.trigger = "edit") =>
                  /\ ss'.edited_image_bytes \in Served
                  /\ written =>
                        /\ files'[ss'.edited_image_filename[1]] = ss'.edited_image_bytes
                        /\ \E i \in DOMAIN run'.shown :
                              /\ run'.shown[i].by = "edit"
                              /\ Some(run'.shown[i].bytes) = ss'.edited_image_bytes
                              /\ run'.shown[i].from = Some(ft[1])
            /\ (~ft[1].raised /\ ft[1].status_code # 200) =>
                  FirstMsg(run') \in
                     {Msg("error", "Failed to download image: HTTP ", ToString(ft[1].status_code)),
                      Msg("error", "Failed to download edited image: HTTP ",
                          ToString(ft[1].status_code))}
            /\ ~ok =>
                  /\ FirstMsg(run').level = "error"
                  /\ ImageKeys(ss') = ImageKeys(ss)
                  /\ files' = files
                  /\ \A i \in DOMAIN run'.shown : run'.shown[i].by # "edit"

C16_UrlWins == [][C16_UrlWinsStep]_vars

\* a first generate was answered with both fields and the fetch of the URL
\* returned 404: the download error, and no image from the payload
C16_Witness ==
    /\ run.trigger = "generate"
    /\ BothEntry(run)
    /\ HandlerFetch(run).status_code = 404
    /\ FirstMsg(run) = Msg("error", "Failed to download image: HTTP ", "404")
    /\ ss.image_bytes = None
    /\ ss.image_filename = None

\* the files Generate Image writes
ImageFiles == {FileName("ikai_asai_image_", t) : t \in 0..MaxClock}

\* session s with the edited_* keys of session t
WithEditedOf(s, t) ==
    [s EXCEPT !.edited_image_url = t.edited_image_url,
              !.edited_image_bytes = t.edited_image_bytes,
              !.edited_image_bytesio = t.edited_image_bytesio,
              !.edited_image_filename = t.edited_image_filename]

\* C17: an Edit Image run changes no session key but the edited_* ones and
\* no file but ikai_asai_edited_{timestamp}.png; the image it submits is the
\* content of the file named by image_filename, a file of Generate Image
C17_EditFrameStep ==
    run'.trigger = "edit" =>
        /\ ss'.image_bytes = ss.image_bytes
        /\ ss'.image_bytesio = ss.image_bytesio
        /\ ss'.image_filename = ss.image_filename
        /\ ss'.image_url = ss.image_url
        /\ WithEditedOf(ss', ss) = ss
        /\ \A n \in DOMAIN files :
              files'[n] # files[n] => n = FileName("ikai_asai_edited_", clock)
        /\ ss'.edited_image_filename # ss.edited_image_filename =>
              ss'.edited_image_filename = Some(FileName("ikai_asai_edited_", clock))
        /\ \A i \in DOMAIN run'.api :
              /\ run'.api[i].op = "edit"
              /\ ss.image_filename # None
              /\ ss.image_filename[1] \in ImageFiles
              /\ run'.api[i].image # None
              /\ run'.api[i].image = files[ss.image_filename[1]]
              /\ run'.api[i].image = files'[ss'.image_filename[1]]

C17_EditFrame == [][C17_EditFrameStep]_vars

\* a later edit, after an edit of an earlier second succeeded: the image
\* submitted is the generated one, which differs from the edited one
C17_Witness ==
    /\ run.trigger = "edit"
    /\ clock = 1
    /\ files[FileName("ikai_asai_edited_", 0)] # None
    /\ files[FileName("ikai_asai_edited_", 1)] # None
    /\ FirstMsg(run) = Msg("success", "Image edited successfully!", "")
    /\ ss.edited_image_bytes # None
    /\ ss.edited_image_bytes # ss.image_bytes
    /\ run.api[1].image = ss.image_bytes
    /\ files[ss.image_filename[1]] = ss.image_bytes

\* C18: in a session of app.py, when image_filename is present so are
\* image_bytes and image_bytesio, and the file it names holds image_bytes:
\* what the download button offers is the image that is displayed
C18_FileMatchesSession ==
    (app = "app.py" /\ ss.image_filename # None) =>
        /\ ss.image_bytes # None
        /\ ss.image_bytesio = ss.image_bytes
        /\ files[ss.image_filename[1]] = ss.image_bytes
        /\ run.download # None =>
              \E i \in DOMAIN run.shown :
                 /\ run.shown[i].by = "display"
                 /\ Some(run.shown[i].bytes) = run.download

\* C19: a Generate Image run that reports an error leaves image_bytes,
\* image_bytesio and image_filename as they were, and the display shows the
\* image held before; of the session keys only image_url may change, and
\* only when the fetch of the URL failed
C19_FailedGenerateStep ==
    (run'.trigger = "generate" /\ FirstMsg(run').level = "error") =>
        /\ ss'.image_bytes = ss.image_bytes
        /\ ss'.image_bytesio = ss.image_bytesio
        /\ ss'.image_filename = ss.image_filename
        /\ [ss' EXCEPT !.image_url = ss.image_url] = ss
        /\ files' = files
        /\ ss'.image_url # ss.image_url =>
              /\ UrlEntry(run')
              /\ HandlerFetch(run').raised \/ HandlerFetch(run').status_code # 200
        /\ (ss.image_bytesio # None /\ run'.shown # <<>>) =>
              Some(run'.shown[1].bytes) = ss.image_bytesio

C19_FailedGenerate == [][C19_FailedGenerateStep]_vars

====
